---- MODULE Spec2Model ----
(***************************************************************************)
(* Ward tracker (src/app.py): the SQLite store (patients, orders,          *)
(* ward_rounds), the Streamlit handlers that write to it, the 30 second    *)
(* read cache of query_df and the aggregation helpers of the dashboards.   *)
(*                                                                         *)
(* Conventions.  A date is an integer day number; the store keeps dates as *)
(* "%Y-%m-%d" text, which for the four digit years the date widgets        *)
(* produce orders and compares exactly as the day number does.  A text     *)
(* value is a sequence of string chunks, so that strip() and the           *)
(* concatenations of the code are computed, not assumed.  SQL NULL is NULL *)
(* in a numeric or date column and NullText in a text column.  INTEGER     *)
(* flag columns hold 0 or 1 as in the store.                               *)
(***************************************************************************)
EXTENDS Integers, Sequences, FiniteSets, TLC

VARIABLES
    patients,    \* table patients: id -> row (only the ids not deleted)
    patientSeq,  \* sqlite_sequence of patients: the greatest id ever assigned
    orders,      \* table orders: sequence, index = id (no order is deleted)
    rounds,      \* table ward_rounds: sequence, index = id
    today,       \* date.today()
    cache,       \* st.cache_data entry of the home page's active-patient query
    last,        \* the handler that ran last and the id it was invoked with
    editForm     \* the edit form another session holds open: the row it was built from

vars == <<patients, patientSeq, orders, rounds, today, cache, last, editForm>>

-----------------------------------------------------------------------------
(* Bounds of the model *)

\* today starts here, so that the sample data's today - 6 is a day >= 0
Day0 == 7
\* number of days the clock can advance
MaxDays == 1
\* patient ids the lifecycle specification assigns
MaxPatients == 2
\* ward-round notes the lifecycle specification inserts
MaxRounds == 1
\* patient ids the census specification assigns
CensusPatients == 2
\* the census specification's dates: Day0 - CensusSpan .. Day0
CensusSpan == 3
\* days that pass in the weekly-overview specification
WeekSpan == 27
\* week offsets asked of week_range, either way
MaxOffset == 2
\* years that pass in the admission specification
MaxYears == 1
\* ward-round notes the rounds specification inserts
MaxNotes == 2
\* orders the forms insert in the orders specification
MaxFormOrders == 2
\* orders the orders specification holds with the sample data loaded
MaxOrders == 3
\* orders load_sample_data inserts
SampleOrders == 3

-----------------------------------------------------------------------------
(* Values *)

NULL == -1
NullText == <<"<NULL>">>
Empty == <<>>

COMMON_TESTS ==
    << <<"XN mau", "Tong phan tich te bao mau">>,
       <<"XN mau", "Sinh hoa co ban">>,
       <<"XN mau", "Dong mau">>,
       <<"XN mau", "Duong huyet">>,
       <<"XN mau", "HbA1c">>,
       <<"X-quang", "X-quang nguc thang">>,
       <<"Sieu am", "Sieu am o bung">>,
       <<"CT", "CT so nao khong can quang">>,
       <<"Khac", "Dien tim">> >>

\* str.strip(): leading and trailing blanks removed
RECURSIVE LStrip(_)
LStrip(s) == IF s # <<>> /\ Head(s) = " " THEN LStrip(Tail(s)) ELSE s

RECURSIVE RStrip(_)
RStrip(s) == IF s # <<>> /\ s[Len(s)] = " " THEN RStrip(SubSeq(s, 1, Len(s) - 1)) ELSE s

\* faulty variant: the text is taken as typed
Strip_AsTyped(s) == s

Strip(s) == RStrip(LStrip(s))

\* 1 if x else 0
Bit(b) == IF b THEN 1 ELSE 0

\* bool(x) of a stored flag
Truthy(x) == x # 0 /\ x # NULL

Max2(a, b) == IF a >= b THEN a ELSE b
Min2(a, b) == IF a <= b THEN a ELSE b

Range(s) == {s[i] : i \in DOMAIN s}

-----------------------------------------------------------------------------
(* Data access layer *)

\* init_db's clean-up, run at the start of every script run
InitDb(ps) ==
    [i \in DOMAIN ps |->
        IF ps[i].severity = NULL THEN [ps[i] EXCEPT !.severity = 0] ELSE ps[i]]

\* faulty variant: the INSERT leaves the active flag at 0
PatientRow_NotActive(patient) ==
    [ medical_id             |-> patient.medical_id,
      name                   |-> patient.name,
      dob                    |-> patient.dob,
      ward                   |-> patient.ward,
      bed                    |-> patient.bed,
      admission_date         |-> patient.admission_date,
      discharge_date         |-> NULL,
      severity               |-> patient.severity,
      surgery_needed         |-> Bit(Truthy(patient.surgery_needed)),
      planned_treatment_days |-> patient.planned_treatment_days,
      meds                   |-> patient.meds,
      notes                  |-> patient.notes,
      active                 |-> 0,
      diagnosis              |-> patient.diagnosis,
      operated               |-> Bit(Truthy(patient.operated)) ]

\* the row add_patient inserts for the dict `patient`
PatientRow(patient) ==
    [ medical_id             |-> patient.medical_id,
      name                   |-> patient.name,
      dob                    |-> patient.dob,
      ward                   |-> patient.ward,
      bed                    |-> patient.bed,
      admission_date         |-> patient.admission_date,
      discharge_date         |-> NULL,
      severity               |-> patient.severity,
      surgery_needed         |-> Bit(Truthy(patient.surgery_needed)),
      planned_treatment_days |-> patient.planned_treatment_days,
      meds                   |-> patient.meds,
      notes                  |-> patient.notes,
      active                 |-> 1,
      diagnosis              |-> patient.diagnosis,
      operated               |-> Bit(Truthy(patient.operated)) ]

\* faulty variant: the id column without AUTOINCREMENT, the new id is the
\* greatest id present plus one
add_patient_MaxRowid(ps, seq, patient) ==
    LET top == IF DOMAIN ps = {} THEN 0
               ELSE CHOOSE m \in DOMAIN ps : \A j \in DOMAIN ps : j <= m
    IN  [i \in DOMAIN ps \cup {top + 1} |->
            IF i = top + 1 THEN PatientRow(patient) ELSE ps[i]]

\* add_patient: the table after the insert; the new id is seq + 1 (AUTOINCREMENT)
add_patient(ps, seq, patient) ==
    [i \in DOMAIN ps \cup {seq + 1} |->
        IF i = seq + 1 THEN PatientRow(patient) ELSE ps[i]]

update_patient_operated(ps, patient_id, operated) ==
    [i \in DOMAIN ps |->
        IF i = patient_id THEN [ps[i] EXCEPT !.operated = Bit(operated)] ELSE ps[i]]

\* the row add_order inserts for the dict `order`
OrderRow(order) ==
    [ patient_id     |-> order.patient_id,
      order_type     |-> order.order_type,
      description    |-> order.description,
      date_ordered   |-> order.date_ordered,
      scheduled_date |-> order.scheduled_date,
      status         |-> order.status,
      result         |-> NullText,
      result_date    |-> NULL ]

add_order(os, order) == Append(os, OrderRow(order))

\* faulty variant: INSERT OR IGNORE under UNIQUE(patient_id, visit_date), a
\* second note of a patient for the same visit date is dropped
add_ward_round_OncePerDay(rs, rec, now) ==
    IF \E k \in DOMAIN rs : rs[k].patient_id = rec.patient_id /\ rs[k].visit_date = rec.visit_date
    THEN rs
    ELSE Append(rs,
            [ patient_id       |-> rec.patient_id,
              visit_date       |-> rec.visit_date,
              general_status   |-> rec.general_status,
              system_exam      |-> rec.system_exam,
              plan             |-> rec.plan,
              extra_tests      |-> rec.extra_tests,
              extra_tests_note |-> rec.extra_tests_note,
              created_at       |-> now ])

add_ward_round(rs, rec, now) ==
    Append(rs,
        [ patient_id       |-> rec.patient_id,
          visit_date       |-> rec.visit_date,
          general_status   |-> rec.general_status,
          system_exam      |-> rec.system_exam,
          plan             |-> rec.plan,
          extra_tests      |-> rec.extra_tests,
          extra_tests_note |-> rec.extra_tests_note,
          created_at       |-> now ])

\* faulty variant: the status is set, the result date is not
mark_order_done_NoDate(os, order_id, result_text, now) ==
    [i \in DOMAIN os |->
        IF i = order_id
        THEN [os[i] EXCEPT !.status = "done", !.result = result_text]
        ELSE os[i]]

\* faulty variant: an empty result text is stored as NULL
mark_order_done_EmptyAsNull(os, order_id, result_text, now) ==
    [i \in DOMAIN os |->
        IF i = order_id
        THEN [os[i] EXCEPT !.status = "done",
                           !.result = IF result_text = <<>> THEN NullText ELSE result_text,
                           !.result_date = now]
        ELSE os[i]]

\* faulty variant: the button toggles, an order already done goes back to pending
mark_order_done_Toggle(os, order_id, result_text, now) ==
    [i \in DOMAIN os |->
        IF i = order_id
        THEN IF os[i].status = "done"
             THEN [os[i] EXCEPT !.status = "pending", !.result_date = NULL]
             ELSE [os[i] EXCEPT !.status = "done", !.result = result_text, !.result_date = now]
        ELSE os[i]]

mark_order_done(os, order_id, result_text, now) ==
    [i \in DOMAIN os |->
        IF i = order_id
        THEN [os[i] EXCEPT !.status = "done", !.result = result_text, !.result_date = now]
        ELSE os[i]]

\* faulty variant: the discharge date is stamped, the active flag is left
discharge_patient_KeepsActive(ps, patient_id, now) ==
    [i \in DOMAIN ps |->
        IF i = patient_id THEN [ps[i] EXCEPT !.discharge_date = now] ELSE ps[i]]

\* faulty variant: discharge_date = COALESCE(discharge_date, ?), a date already
\* there is kept
discharge_patient_KeepsDate(ps, patient_id, now) ==
    [i \in DOMAIN ps |->
        IF i = patient_id
        THEN [ps[i] EXCEPT !.discharge_date = IF @ = NULL THEN now ELSE @, !.active = 0]
        ELSE ps[i]]

discharge_patient(ps, patient_id, now) ==
    [i \in DOMAIN ps |->
        IF i = patient_id
        THEN [ps[i] EXCEPT !.discharge_date = now, !.active = 0]
        ELSE ps[i]]

undo_discharge(ps, patient_id) ==
    [i \in DOMAIN ps |->
        IF i = patient_id
        THEN [ps[i] EXCEPT !.discharge_date = NULL, !.active = 1]
        ELSE ps[i]]

\* faulty variant: the DELETE has lost its WHERE
delete_patient_EveryRow(ps, patient_id) ==
    [i \in {} |-> ps[i]]

\* DELETE FROM patients WHERE id=?
delete_patient(ps, patient_id) ==
    [i \in DOMAIN ps \ {patient_id} |-> ps[i]]

\* faulty variant: the UPDATE also sets active from the discharge date
update_patient_SetsActive(ps, patient_id, f) ==
    [i \in DOMAIN ps |->
        IF i = patient_id
        THEN [ps[i] EXCEPT
                !.medical_id     = IF Strip(f.medical_id) = Empty THEN NullText
                                   ELSE Strip(f.medical_id),
                !.name           = Strip(f.name),
                !.ward           = Strip(f.ward),
                !.bed            = Strip(f.bed),
                !.admission_date = f.admission_date,
                !.discharge_date = f.discharge_date,
                !.surgery_needed = Bit(f.surgery_needed),
                !.operated       = Bit(f.operated),
                !.diagnosis      = Strip(f.diagnosis),
                !.notes          = Strip(f.notes),
                !.active         = IF f.discharge_date = NULL THEN 1 ELSE 0]
        ELSE ps[i]]

\* the edit form's UPDATE of ten columns
update_patient(ps, patient_id, f) ==
    [i \in DOMAIN ps |->
        IF i = patient_id
        THEN [ps[i] EXCEPT
                !.medical_id     = IF Strip(f.medical_id) = Empty THEN NullText
                                   ELSE Strip(f.medical_id),
                !.name           = Strip(f.name),
                !.ward           = Strip(f.ward),
                !.bed            = Strip(f.bed),
                !.admission_date = f.admission_date,
                !.discharge_date = f.discharge_date,
                !.surgery_needed = Bit(f.surgery_needed),
                !.operated       = Bit(f.operated),
                !.diagnosis      = Strip(f.diagnosis),
                !.notes          = Strip(f.notes)]
        ELSE ps[i]]

\* SELECT * FROM patients WHERE active=1
SelectActive(ps) == [i \in {j \in DOMAIN ps : ps[j].active = 1} |-> ps[i]]

NoEntry == [hit |-> FALSE, df |-> <<>>]

\* query_df of the home page's query: the cached frame while the entry lives
query_df_active(c, ps) == IF c.hit THEN c.df ELSE SelectActive(ps)

\* st.cache_data.clear()
cache_clear(c) == NoEntry

-----------------------------------------------------------------------------
(* Weekly overview helpers *)

\* _to_date: None for NULL or empty, else the parsed date
_to_date(s) == IF s = NULL THEN NULL ELSE s

\* date.weekday(): Monday is 0 (day 0, 1 January 2024, is a Monday)
weekday(d) == d % 7

\* faulty variant: the week is taken to start on Sunday
week_range_FromSunday(today_, offset_weeks) ==
    LET monday == (today_ - ((today_ + 1) % 7)) + 7 * offset_weeks
    IN  <<monday, monday + 6>>

week_range(today_, offset_weeks) ==
    LET monday0 == today_ - weekday(today_)
        monday  == monday0 + 7 * offset_weeks
        sunday  == monday + 6
    IN  <<monday, sunday>>

\* faulty variant: a patient discharged on the window's first day is dropped
patients_active_between_Strict(ps, dstart, dend) ==
    { i \in DOMAIN ps :
        LET ad == _to_date(ps[i].admission_date)
            dd == _to_date(ps[i].discharge_date)
        IN  /\ ad # NULL
            /\ ad <= dend
            /\ (dd = NULL \/ dd > dstart) }

\* the ids of the rows patients_active_between keeps (its mask)
patients_active_between(ps, dstart, dend) ==
    { i \in DOMAIN ps :
        LET ad == _to_date(ps[i].admission_date)
            dd == _to_date(ps[i].discharge_date)
        IN  /\ ad # NULL
            /\ ad <= dend
            /\ (dd = NULL \/ dd >= dstart) }

\* faulty variant: the stay is not clamped to the window's start
overlap_days_NoStartClamp(ad, dd, dstart, dend) ==
    LET start == IF ad = NULL THEN dstart ELSE ad
        end   == Min2(IF dd = NULL THEN dend ELSE dd, dend)
    IN  Max2(0, (end - start) + 1)

\* overlap_days of avg_days_treated_in_week
overlap_days(ad, dd, dstart, dend) ==
    LET start == Max2(IF ad = NULL THEN dstart ELSE ad, dstart)
        end   == Min2(IF dd = NULL THEN dend ELSE dd, dend)
    IN  Max2(0, (end - start) + 1)

\* round(x, 1) of x = total / n, in tenths (ties to the even tenth; the means
\* of up to four rows are binary fractions wherever they tie)
RoundTenths(total, n) ==
    LET q == (10 * total) \div n
        r == (10 * total) % n
    IN  IF 2 * r < n THEN q
        ELSE IF 2 * r > n THEN q + 1
        ELSE IF q % 2 = 0 THEN q ELSE q + 1

\* the sum of the ov series, row by row in id order
RECURSIVE SumOverlap(_, _, _, _)
SumOverlap(ps, ids, dstart, dend) ==
    IF ids = {} THEN 0
    ELSE LET i == CHOOSE x \in ids : \A y \in ids : x <= y
         IN  overlap_days(_to_date(ps[i].admission_date), _to_date(ps[i].discharge_date),
                          dstart, dend)
             + SumOverlap(ps, ids \ {i}, dstart, dend)

\* avg_days_treated_in_week, in tenths of a day
\* faulty variant: no early return on an empty frame, the mean of nothing is NaN
avg_days_treated_in_week_NoGuard(ps, dstart, dend) ==
    LET df == patients_active_between(ps, dstart, dend)
    IN  IF df = {} THEN NULL
        ELSE RoundTenths(SumOverlap(ps, df, dstart, dend), Cardinality(df))

avg_days_treated_in_week(ps, dstart, dend) ==
    LET df == patients_active_between(ps, dstart, dend)
    IN  IF df = {} THEN 0
        ELSE RoundTenths(SumOverlap(ps, df, dstart, dend), Cardinality(df))

count_discharges_between(ps, dstart, dend) ==
    Cardinality({ i \in DOMAIN ps :
                    LET dd == _to_date(ps[i].discharge_date)
                    IN  dd # NULL /\ dd >= dstart /\ dd <= dend })

count_orders_between(os, dstart, dend) ==
    Cardinality({ k \in DOMAIN os :
                    LET sd == _to_date(os[k].scheduled_date)
                    IN  sd # NULL /\ sd >= dstart /\ sd <= dend })

-----------------------------------------------------------------------------
(* Dashboard and ward-round helpers *)

\* faulty variant: an order scheduled for today is not yet counted
RECURSIVE scheduled_not_done_Before(_, _)
scheduled_not_done_Before(os, today_str) ==
    IF os = <<>> THEN 0
    ELSE LET o == os[Len(os)]
         IN  Bit(o.status # "done" /\ o.scheduled_date # NULL /\ o.scheduled_date < today_str)
             + scheduled_not_done_Before(SubSeq(os, 1, Len(os) - 1), today_str)

\* dashboard_stats: scheduled_not_done, the sum of the mask over df_orders
\* (the LEFT JOIN keeps every order once)
RECURSIVE scheduled_not_done(_, _)
scheduled_not_done(os, today_str) ==
    IF os = <<>> THEN 0
    ELSE LET o == os[Len(os)]
         IN  Bit(o.status # "done" /\ o.scheduled_date # NULL /\ o.scheduled_date <= today_str)
             + scheduled_not_done(SubSeq(os, 1, Len(os) - 1), today_str)

\* days_between(d1): whole days from d1 to date.today()
days_between(d1, today_str) == IF d1 = NULL THEN NULL ELSE today_str - d1

\* the sum of days_in_hospital over the rows `ids` (mean() skips the missing)
RECURSIVE SumDays(_, _, _)
SumDays(ps, ids, today_str) ==
    IF ids = {} THEN 0
    ELSE LET i == CHOOSE x \in ids : TRUE
             d == days_between(ps[i].admission_date, today_str)
         IN  (IF d = NULL THEN 0 ELSE d) + SumDays(ps, ids \ {i}, today_str)

\* the selectbox's first entry, "Tat ca" (every ward)
AllWards == <<"Tat ca">>

\* dashboard_stats({"ward": ward}): the six figures of the home page
dashboard_stats(ps, os, ward, today_str) ==
    LET df_active == { i \in DOMAIN ps :
                         /\ ps[i].active = 1
                         /\ (ward # Empty /\ ward # AllWards) => ps[i].ward = ward }
        total_active == Cardinality(df_active)
        wards == { ps[i].ward : i \in df_active } \ {NullText}
        dated == { i \in df_active : ps[i].admission_date # NULL }
    IN  [ total_active       |-> total_active,
          patients_per_ward  |-> IF total_active > 0
                                 THEN [ w \in wards |->
                                          Cardinality({ i \in df_active : ps[i].ward = w }) ]
                                 ELSE <<>>,
          avg_days           |-> IF total_active > 0 /\ dated # {}
                                 THEN RoundTenths(SumDays(ps, dated, today_str), Cardinality(dated))
                                 ELSE 0,
          count_wait_surg    |-> Cardinality({ i \in DOMAIN ps :
                                                 ps[i].active = 1 /\ ps[i].surgery_needed = 1 }),
          pending_patients   |-> Cardinality({ os[k].patient_id :
                                                 k \in { j \in DOMAIN os : os[j].status # "done" } }),
          scheduled_not_done |-> scheduled_not_done(os, today_str) ]

\* faulty variant: the note of the least id of each group
GroupMaxId_Min(rs, kept) ==
    { [ patient_id |-> rs[i].patient_id, max_id |-> i ] :
        i \in { k \in kept :
                  \A m \in kept : rs[m].patient_id = rs[k].patient_id => m >= k } }

\* SELECT patient_id, MAX(id) AS max_id FROM ward_rounds [WHERE ...] GROUP BY
\* patient_id, over the note ids `kept` that pass the WHERE
GroupMaxId(rs, kept) ==
    { [ patient_id |-> rs[i].patient_id, max_id |-> i ] :
        i \in { k \in kept :
                  \A m \in kept : rs[m].patient_id = rs[k].patient_id => m <= k } }

\* r.get("plan") or ""
PlanOrEmpty(t) == IF t = NullText THEN Empty ELSE t

\* latest_plan_map_all_patients: the dict built from the joined rows
latest_plan_map_all_patients(rs) ==
    LET t  == GroupMaxId(rs, DOMAIN rs)
        df == { [ patient_id |-> rs[w].patient_id, plan |-> rs[w].plan ] :
                  w \in { k \in DOMAIN rs : \E g \in t : k = g.max_id } }
    IN  [ pid \in { r.patient_id : r \in df } |->
            PlanOrEmpty((CHOOSE r \in df : r.patient_id = pid).plan) ]

\* faulty variant: the join keeps the patients that are not active too
rounds_latest_today_with_plan_AnyPatient(ps, rs, today_str) ==
    LET t == GroupMaxId(rs, { k \in DOMAIN rs : rs[k].visit_date = today_str })
    IN  { [ id |-> x[1], pid |-> x[2], plan |-> rs[x[1]].plan ] :
            x \in { y \in (DOMAIN rs) \X (DOMAIN ps) :
                      /\ \E g \in t : y[1] = g.max_id
                      /\ y[2] = rs[y[1]].patient_id } }

\* rounds_latest_today_with_plan: the rows of the frame, as (note id, pid, plan)
rounds_latest_today_with_plan(ps, rs, today_str) ==
    LET t == GroupMaxId(rs, { k \in DOMAIN rs : rs[k].visit_date = today_str })
    IN  { [ id |-> x[1], pid |-> x[2], plan |-> rs[x[1]].plan ] :
            x \in { y \in (DOMAIN rs) \X (DOMAIN ps) :
                      /\ \E g \in t : y[1] = g.max_id
                      /\ y[2] = rs[y[1]].patient_id
                      /\ ps[y[2]].active = 1 } }

-----------------------------------------------------------------------------
(* Handlers.  Every handler is one script run: init_db first, then the page's
   code.  A button fires only for a widget the run renders, so a handler's
   guard is the query that lists its rows.  Only the home page's query is
   modelled with its cache entry; the other queries are read from the store
   (their entries absent or expired). *)

Did(op, id) == last' = [op |-> op, id |-> id]

\* date.today().year: the clock counts days, day 0 being 1 January of EpochYear
EpochYear == 2024
date_year(d) == EpochYear + (d \div 365)

\* dob_date = None: the detailed date input is not rendered
NoDate == <<>>

\* faulty variant: the year computed from the age is not clamped
dob_final_NoClamp(f, today_year) ==
    IF f.use_detail /\ f.dob_date # NoDate THEN f.dob_date
    ELSE IF f.use_age /\ f.dob_age # NULL
         THEN <<today_year - f.dob_age, 1, 1>>
         ELSE <<f.dob_year, 1, 1>>

\* page "Nhap BN": the date of birth the submit resolves from the three widgets
dob_final(f, today_year) ==
    IF f.use_detail /\ f.dob_date # NoDate THEN f.dob_date
    ELSE IF f.use_age /\ f.dob_age # NULL
         THEN LET yr == Max2(1900, Min2(today_year, today_year - f.dob_age))
              IN  <<yr, 1, 1>>
         ELSE <<f.dob_year, 1, 1>>

\* faulty variant: the orders are scheduled for the day they are written
RECURSIVE AddPicked_ScheduledToday(_, _, _, _, _, _)
AddPicked_ScheduledToday(os, selected, patient_id, suffix, today_str, sched_str) ==
    IF selected = <<>> THEN os
    ELSE LET t == COMMON_TESTS[Head(selected)]
         IN  AddPicked_ScheduledToday(
                add_order(os, [ patient_id     |-> patient_id,
                                order_type     |-> t[1],
                                description    |-> <<t[2]>> \o suffix,
                                date_ordered   |-> today_str,
                                scheduled_date |-> today_str,
                                status         |-> "scheduled" ]),
                Tail(selected), patient_id, suffix, today_str, sched_str)

\* the order a quick-pick label stands for: COMMON_TESTS[k] as (type, description)
RECURSIVE AddPicked(_, _, _, _, _, _)
AddPicked(os, selected, patient_id, suffix, today_str, sched_str) ==
    IF selected = <<>> THEN os
    ELSE LET t == COMMON_TESTS[Head(selected)]
         IN  AddPicked(
                add_order(os, [ patient_id     |-> patient_id,
                                order_type     |-> t[1],
                                description    |-> <<t[2]>> \o suffix,
                                date_ordered   |-> today_str,
                                scheduled_date |-> sched_str,
                                status         |-> "scheduled" ]),
                Tail(selected), patient_id, suffix, today_str, sched_str)

\* page "Nhap BN": the dict `patient` the submit passes to add_patient
AdmitDict(f, today_year) ==
    [ medical_id             |-> IF f.medical_id # Empty
                                 THEN Strip(f.medical_id) ELSE NullText,
      name                   |-> Strip(f.name),
      dob                    |-> dob_final(f, today_year),
      ward                   |-> Strip(f.ward),
      bed                    |-> Strip(f.bed),
      admission_date         |-> f.admission_date,
      severity               |-> NULL,
      surgery_needed         |-> Bit(f.surgery_needed),
      planned_treatment_days |-> f.planned_treatment_days,
      meds                   |-> Strip(f.meds),
      notes                  |-> Strip(f.notes),
      diagnosis              |-> Strip(f.diagnosis),
      operated               |-> Bit(f.operated) ]

\* page "Nhap BN": submit of form_add_patient
AdmitPatient(f, selected, scheduled_all) ==
    LET ps0 == InitDb(patients)
        patient == AdmitDict(f, date_year(today))
        new_id == patientSeq + 1
    IN  IF Strip(f.name) = Empty
        THEN /\ patients' = ps0
             /\ Did("admit_rejected", 0)
             /\ UNCHANGED <<editForm, patientSeq, orders, rounds, today, cache>>
        ELSE \* safe_rerun() starts the next script run, which begins with init_db
             /\ patients' = InitDb(add_patient(ps0, patientSeq, patient))
             /\ patientSeq' = new_id
             /\ orders' = AddPicked(orders, selected, new_id, <<>>, today, scheduled_all)
             /\ cache' = cache_clear(cache)
             /\ Did("admit", new_id)
             /\ UNCHANGED <<editForm, rounds, today>>

\* page "Trang chu": render only (dashboard_stats reads the active patients)
LoadHome ==
    LET ps0 == InitDb(patients)
    IN  /\ patients' = ps0
        /\ cache' = [hit |-> TRUE, df |-> query_df_active(cache, ps0)]
        /\ Did("home", 0)
        /\ UNCHANGED <<editForm, patientSeq, orders, rounds, today>>

\* page "Trang chu": the row's "Xuat vien" button (no cache clear before the rerun)
HomeDischarge(id) ==
    LET ps0 == InitDb(patients)
        df_active == query_df_active(cache, ps0)
    IN  /\ id \in DOMAIN df_active
        /\ patients' = discharge_patient(ps0, id, today)
        /\ cache' = [hit |-> TRUE, df |-> df_active]
        /\ Did("discharge", id)
        /\ UNCHANGED <<editForm, patientSeq, orders, rounds, today>>

\* page "Di buong": the dict round_rec built from the dialog's form
RoundRec(patient_id, visit_day, r, extra_selected) ==
    [ patient_id       |-> patient_id,
      visit_date       |-> visit_day,
      general_status   |-> Strip(r.general_status),
      system_exam      |-> Strip(r.system_exam),
      plan             |-> Strip(r.plan),
      extra_tests      |-> extra_selected,
      extra_tests_note |-> Strip(r.extra_note) ]

\* desc_full: the description's suffix, " - " and the rationale when there is one
RoundSuffix(r) ==
    IF Strip(r.extra_note) = Empty THEN <<>> ELSE <<" - ">> \o Strip(r.extra_note)

\* page "Di buong": the dialog's "Luu kham" button
RoundSave(patient_id, visit_day, r, operated_now, extra_selected, extra_scheduled) ==
    LET ps0 == InitDb(patients)
        round_rec == RoundRec(patient_id, visit_day, r, extra_selected)
        suffix == RoundSuffix(r)
    IN  /\ patient_id \in DOMAIN ps0
        /\ patients' = update_patient_operated(ps0, patient_id, operated_now)
        /\ rounds' = add_ward_round(rounds, round_rec, today)
        /\ orders' = AddPicked(orders, extra_selected, patient_id, suffix, today, extra_scheduled)
        /\ cache' = cache_clear(cache)
        /\ Did("round", patient_id)
        /\ UNCHANGED <<editForm, patientSeq, today>>

\* page "Di buong": "Luu kham" when the store raises at a write: each _exec has
\* committed on its own, so the first `done` writes stay; the exception ends
\* the run before the cache clear and the rerun
RoundSaveInterrupted(patient_id, visit_day, r, operated_now, extra_selected, extra_scheduled, done) ==
    LET ps0 == InitDb(patients)
        round_rec == RoundRec(patient_id, visit_day, r, extra_selected)
        suffix == RoundSuffix(r)
    IN  /\ patient_id \in DOMAIN ps0
        /\ done \in 0..(1 + Len(extra_selected))
        /\ patients' = IF done >= 1
                       THEN update_patient_operated(ps0, patient_id, operated_now)
                       ELSE ps0
        /\ rounds' = IF done >= 2 THEN add_ward_round(rounds, round_rec, today) ELSE rounds
        /\ orders' = IF done > 2
                     THEN AddPicked(orders, SubSeq(extra_selected, 1, done - 2), patient_id,
                                    suffix, today, extra_scheduled)
                     ELSE orders
        /\ Did("round_failed", patient_id)
        /\ UNCHANGED <<editForm, patientSeq, today, cache>>

\* page "Di buong": the dialog's "Xuat vien hom nay" button
RoundDischarge(patient_id) ==
    LET ps0 == InitDb(patients)
    IN  /\ patient_id \in DOMAIN ps0
        /\ patients' = discharge_patient(ps0, patient_id, today)
        /\ cache' = cache_clear(cache)
        /\ Did("discharge", patient_id)
        /\ UNCHANGED <<editForm, patientSeq, orders, rounds, today>>

\* page "Lich XN/Chup": the order's "Danh dau da lam" button
MarkDone(order_id, result_text) ==
    /\ order_id \in DOMAIN orders
    /\ patients' = InitDb(patients)
    /\ orders' = mark_order_done(orders, order_id, result_text, today)
    /\ cache' = cache_clear(cache)
    /\ Did("mark_done", order_id)
    /\ UNCHANGED <<editForm, patientSeq, rounds, today>>

\* page "Lich XN/Chup": submit of form_add_order
AddOrderForm(pid, order_type, desc, scheduled) ==
    LET ps0 == InitDb(patients)
    IN  /\ pid \in DOMAIN SelectActive(ps0)
        /\ patients' = ps0
        /\ orders' = add_order(orders, [ patient_id     |-> pid,
                                         order_type     |-> order_type,
                                         description    |-> Strip(desc),
                                         date_ordered   |-> today,
                                         scheduled_date |-> scheduled,
                                         status         |-> "scheduled" ])
        /\ cache' = cache_clear(cache)
        /\ Did("add_order", pid)
        /\ UNCHANGED <<editForm, patientSeq, rounds, today>>

\* page "Xuat vien": the row's "Quay lai" button (rows of one discharge date)
UndoDischarge(id) ==
    LET ps0 == InitDb(patients)
    IN  /\ id \in DOMAIN ps0
        /\ ps0[id].discharge_date # NULL
        /\ patients' = undo_discharge(ps0, id)
        /\ cache' = cache_clear(cache)
        /\ Did("undo_discharge", id)
        /\ UNCHANGED <<editForm, patientSeq, orders, rounds, today>>

\* pages "Tim kiem & Lich su" and "Chinh sua BN": the delete buttons
DeletePatient(id) ==
    LET ps0 == InitDb(patients)
    IN  /\ id \in DOMAIN ps0
        /\ patients' = delete_patient(ps0, id)
        /\ cache' = cache_clear(cache)
        /\ Did("delete", id)
        /\ UNCHANGED <<editForm, patientSeq, orders, rounds, today>>

\* pages "Tim kiem & Lich su" and "Chinh sua BN": the discharge buttons
\* (both list inactive patients too)
PageDischarge(id) ==
    LET ps0 == InitDb(patients)
    IN  /\ id \in DOMAIN ps0
        /\ patients' = discharge_patient(ps0, id, today)
        /\ cache' = cache_clear(cache)
        /\ last' = [op |-> "discharge", id |-> id,
                    was |-> [active |-> ps0[id].active,
                             discharge_date |-> ps0[id].discharge_date]]
        /\ UNCHANGED <<editForm, patientSeq, orders, rounds, today>>

\* page "Chinh sua BN": "Luu thay doi"
EditPatient(id, f) ==
    LET ps0 == InitDb(patients)
    IN  /\ id \in DOMAIN ps0
        /\ IF Strip(f.name) = Empty
           THEN /\ patients' = ps0
                /\ Did("edit_rejected", id)
                /\ UNCHANGED cache
           ELSE /\ patients' = update_patient(ps0, id, f)
                /\ cache' = cache_clear(cache)
                /\ Did("edit", id)
        /\ UNCHANGED <<editForm, patientSeq, orders, rounds, today>>

\* the cache entry's ttl of 30 seconds runs out
CacheExpire ==
    /\ cache.hit
    /\ cache' = NoEntry
    /\ Did("expire", 0)
    /\ UNCHANGED <<editForm, patients, patientSeq, orders, rounds, today>>

\* midnight
NextDay ==
    /\ today' = today + 1
    /\ Did("midnight", 0)
    /\ UNCHANGED <<editForm, patients, patientSeq, orders, rounds, cache>>

\* a year later
YearPasses ==
    /\ today' = today + 365
    /\ Did("new_year", 0)
    /\ UNCHANGED <<editForm, patients, patientSeq, orders, rounds, cache>>

\* page "Tong quan": the render computes this week's and last week's range
LoadOverview ==
    /\ patients' = InitDb(patients)
    /\ last' = [op |-> "overview", id |-> 0,
                this |-> week_range(today, 0), prev |-> week_range(today, -1)]
    /\ UNCHANGED <<editForm, patientSeq, orders, rounds, today, cache>>

\* a call week_range(date.today(), offset_weeks)
CallWeekRange(offset_weeks) ==
    /\ last' = [op |-> "week_range", id |-> offset_weeks,
                range |-> week_range(today, offset_weeks)]
    /\ UNCHANGED <<editForm, patients, patientSeq, orders, rounds, today, cache>>

\* page "Cai dat / Demo": load_sample_data
LoadSampleData ==
    LET ps0 == InitDb(patients)
        p1 == [ medical_id |-> <<"BN001">>, name |-> <<"Nguyen A">>, dob |-> <<1975, 2, 10>>,
                ward |-> <<"304">>, bed |-> <<"01">>, admission_date |-> today,
                severity |-> 4, surgery_needed |-> 1, planned_treatment_days |-> 7,
                meds |-> <<"Thuoc A">>, notes |-> <<"Theo doi huyet ap">>,
                diagnosis |-> <<"Tang huyet ap">>, operated |-> 0 ]
        p2 == [ medical_id |-> <<"BN002">>, name |-> <<"Tran B">>, dob |-> <<1965, 6, 15>>,
                ward |-> <<"305">>, bed |-> <<"02">>, admission_date |-> today - 2,
                severity |-> 2, surgery_needed |-> 0, planned_treatment_days |-> 3,
                meds |-> <<"Thuoc B">>, notes |-> Empty,
                diagnosis |-> <<"DTD typ 2">>, operated |-> 1 ]
        p3 == [ medical_id |-> <<"BN003">>, name |-> <<"Le C">>, dob |-> <<1988, 11, 22>>,
                ward |-> <<"306">>, bed |-> <<"05">>, admission_date |-> today - 6,
                severity |-> 5, surgery_needed |-> 1, planned_treatment_days |-> 10,
                meds |-> <<"Thuoc C">>, notes |-> <<"Theo doi sau mo">>,
                diagnosis |-> <<"Chan thuong so nao">>, operated |-> 0 ]
        id1 == patientSeq + 1
        id2 == patientSeq + 2
        id3 == patientSeq + 3
        ps1 == add_patient(ps0, patientSeq, p1)
        ps2 == add_patient(ps1, id1, p2)
        ps3 == add_patient(ps2, id2, p3)
        os1 == add_order(orders, [ patient_id |-> id1, order_type |-> "CT",
                                   description |-> <<"CT nao">>, date_ordered |-> today,
                                   scheduled_date |-> today + 1, status |-> "scheduled" ])
        os2 == add_order(os1, [ patient_id |-> id2, order_type |-> "XN mau",
                                description |-> <<"Tong phan tich">>, date_ordered |-> today - 1,
                                scheduled_date |-> today, status |-> "pending" ])
        os3 == add_order(os2, [ patient_id |-> id3, order_type |-> "Sieu am",
                                description |-> <<"O bung">>, date_ordered |-> today,
                                scheduled_date |-> today + 2, status |-> "scheduled" ])
    IN  /\ patients' = ps3
        /\ patientSeq' = id3
        /\ orders' = os3
        /\ cache' = cache_clear(cache)
        /\ Did("sample", id1)
        /\ UNCHANGED <<editForm, rounds, today>>

-----------------------------------------------------------------------------
(* Form inputs *)

NameA == <<"A">>
Blank == <<" ">>

\* form_add_patient as submitted with a name and an admission date, the other
\* widgets left at their defaults
AdmitForm(name, admission_date) ==
    [ medical_id |-> Empty, name |-> name, ward |-> <<"304">>,
      dob_year |-> 1980, use_age |-> FALSE, dob_age |-> NULL,
      use_detail |-> FALSE, dob_date |-> NoDate,
      bed |-> Empty, admission_date |-> admission_date, planned_treatment_days |-> 3,
      surgery_needed |-> FALSE, diagnosis |-> Empty, operated |-> FALSE,
      meds |-> Empty, notes |-> Empty ]

\* value=p.get(col) or "" of the edit form's text inputs
OrEmpty(t) == IF t = NullText THEN Empty ELSE t

\* form_edit_patient_full as rendered for the row p: every widget at its default
EditDefaults(p) ==
    [ medical_id     |-> OrEmpty(p.medical_id),
      name           |-> OrEmpty(p.name),
      ward           |-> OrEmpty(p.ward),
      bed            |-> OrEmpty(p.bed),
      admission_date |-> p.admission_date,
      discharge_date |-> p.discharge_date,
      surgery_needed |-> Truthy(p.surgery_needed),
      operated       |-> Truthy(p.operated),
      diagnosis      |-> OrEmpty(p.diagnosis),
      notes          |-> OrEmpty(p.notes) ]

RoundForm(plan) ==
    [ general_status |-> Empty, system_exam |-> Empty, plan |-> plan, extra_note |-> Empty ]

Ids == 1..patientSeq

-----------------------------------------------------------------------------
(* The edit form of a second session: it is rendered from the row as loaded,
   stays open while other sessions write, and is submitted later. *)

\* no edit form is open
NoForm == [pid |-> 0]

\* page "Chinh sua BN": the page is rendered for the patient id
OpenEdit(id) ==
    LET ps0 == InitDb(patients)
    IN  /\ id \in DOMAIN ps0
        /\ patients' = ps0
        /\ editForm' = [pid |-> id, p |-> ps0[id]]
        /\ Did("edit_open", id)
        /\ UNCHANGED <<patientSeq, orders, rounds, today, cache>>

\* what a widget returns in the run of the submit: the widgets have no key,
\* their identity includes value=, so a widget whose default is still the one
\* it was rendered with returns what the user left in it, and one whose default
\* has changed (the row was rewritten meanwhile and is read again, the cache
\* having been cleared) returns either that or the new default, as the
\* Streamlit version has it
WidgetValue(loaded, typed, now) == IF now = loaded THEN {typed} ELSE {typed, now}

\* the forms the open form's submit can deliver, for the form `typed` in the browser
SubmittedForms(loaded, typed, now) ==
    [ medical_id     : WidgetValue(loaded.medical_id, typed.medical_id, now.medical_id),
      name           : WidgetValue(loaded.name, typed.name, now.name),
      ward           : WidgetValue(loaded.ward, typed.ward, now.ward),
      bed            : WidgetValue(loaded.bed, typed.bed, now.bed),
      admission_date : WidgetValue(loaded.admission_date, typed.admission_date, now.admission_date),
      discharge_date : WidgetValue(loaded.discharge_date, typed.discharge_date, now.discharge_date),
      surgery_needed : WidgetValue(loaded.surgery_needed, typed.surgery_needed, now.surgery_needed),
      operated       : WidgetValue(loaded.operated, typed.operated, now.operated),
      diagnosis      : WidgetValue(loaded.diagnosis, typed.diagnosis, now.diagnosis),
      notes          : WidgetValue(loaded.notes, typed.notes, now.notes) ]

\* page "Chinh sua BN": "Luu thay doi" of the open form, delivering the form f
SubmitOpenEdit(typed, f) ==
    LET ps0 == InitDb(patients)
        id == editForm.pid
    IN  /\ id # 0
        /\ id \in DOMAIN ps0
        /\ f \in SubmittedForms(EditDefaults(editForm.p), typed, EditDefaults(ps0[id]))
        /\ IF Strip(f.name) = Empty
           THEN /\ patients' = ps0
                /\ Did("edit_rejected", id)
                /\ UNCHANGED cache
           ELSE /\ patients' = update_patient(ps0, id, f)
                /\ cache' = cache_clear(cache)
                /\ Did("edit_saved_open", id)
        /\ editForm' = NoForm
        /\ UNCHANGED <<patientSeq, orders, rounds, today>>


-----------------------------------------------------------------------------
(* The lifecycle specification: every handler that writes to patients, with
   the home page's cached read. *)

LastDay == Day0 + MaxDays
Days == Day0..LastDay

Init ==
    /\ patients = <<>>
    /\ patientSeq = 0
    /\ orders = <<>>
    /\ rounds = <<>>
    /\ today = Day0
    /\ cache = NoEntry
    /\ last = [op |-> "start", id |-> 0]
    /\ editForm = NoForm

Next ==
    \/ \E name \in {NameA, Blank}, ad \in Days :
          /\ patientSeq < MaxPatients
          /\ AdmitPatient(AdmitForm(name, ad), <<>>, today)
    \/ LoadHome
    \/ \E id \in Ids : HomeDischarge(id)
    \/ \E id \in DOMAIN patients :
          /\ Len(rounds) < MaxRounds
          /\ RoundSave(id, today, RoundForm(<<"P">>), Truthy(patients[id].operated), <<>>, today)
    \/ \E id \in Ids : RoundDischarge(id)
    \/ \E id \in Ids : UndoDischarge(id)
    \/ \E id \in Ids : DeletePatient(id)
    \/ \E id \in Ids : PageDischarge(id)
    \/ \E id \in DOMAIN patients, name \in {NameA, Blank}, ad \in Days, dd \in {NULL} \cup Days :
          EditPatient(id, [EditDefaults(InitDb(patients)[id]) EXCEPT
                              !.name = name, !.admission_date = ad, !.discharge_date = dd])
    \/ CacheExpire
    \/ today < LastDay /\ NextDay

Spec == Init /\ [][Next]_vars

-----------------------------------------------------------------------------
(* C1: in every reachable store state every patient row has active = 1 exactly
   when its discharge_date is NULL.  (The edit form's UPDATE writes
   discharge_date and leaves active alone.) *)
C1_ActiveIffNoDischargeDate ==
    \A id \in DOMAIN patients :
        (patients[id].active = 1) <=> (patients[id].discharge_date = NULL)

(* C2: immediately after a discharge of an existing patient the row has
   active = 0 and discharge_date = today; immediately after an undo of a
   discharge it has active = 1 and discharge_date NULL. *)
C2_DischargeUndoPost ==
    /\ (last.op = "discharge" /\ last.id \in DOMAIN patients) =>
          /\ patients[last.id].active = 0
          /\ patients[last.id].discharge_date = today
    /\ (last.op = "undo_discharge" /\ last.id \in DOMAIN patients) =>
          /\ patients[last.id].active = 1
          /\ patients[last.id].discharge_date = NULL

\* an undo has just put back a patient (whose row held a discharge date)
C2_Witness ==
    /\ last.op = "undo_discharge"
    /\ last.id \in DOMAIN patients
    /\ patients[last.id].active = 1
    /\ patients[last.id].discharge_date = NULL

(* C3: a living cache entry of the active-patient query equals what the query
   returns from the store, so a read after a mutation never returns the frame
   cached before it.  (The home page's discharge button reruns without
   clearing the cache.) *)
C3_CachedReadIsCurrent ==
    cache.hit => cache.df = SelectActive(patients)

-----------------------------------------------------------------------------
(* The orders specification: every handler that creates an order (admission
   quick-picks, ward-round extra tests, the ad hoc form, the sample data) and
   the mark-done button. *)

Results == {Empty, <<"ok">>}

NextOrders ==
    \/ \E sel \in {<<>>, <<1>>} :
          /\ patientSeq < MaxPatients
          /\ Len(orders) + Len(sel) <= MaxFormOrders
          /\ AdmitPatient(AdmitForm(NameA, today), sel, today)
    \/ \E id \in DOMAIN patients, sel \in {<<6, 8>>} :
          /\ Len(rounds) < MaxRounds
          /\ Len(orders) + Len(sel) <= MaxFormOrders
          /\ RoundSave(id, today, [RoundForm(<<"P">>) EXCEPT !.extra_note = <<"CRP">>],
                       Truthy(patients[id].operated), sel, today + 1)
    \/ \E id \in Ids, sched \in {today, today + 1} :
          /\ Len(orders) < MaxFormOrders
          /\ AddOrderForm(id, "CT", <<" sau mo ">>, sched)
    \/ /\ Len(orders) + SampleOrders <= MaxOrders
       /\ LoadSampleData
    \/ \E oid \in DOMAIN orders, t \in Results : MarkDone(oid, t)
    \/ today < LastDay /\ NextDay

SpecOrders == Init /\ [][NextOrders]_vars

(* C4: in every reachable store state every order row has status 'done'
   exactly when its result_date is not NULL. *)
C4_DoneIffResultDate ==
    \A oid \in DOMAIN orders :
        (orders[oid].status = "done") <=> (orders[oid].result_date # NULL)

\* a done order with its result date beside an order not done (no result date)
C4_Witness ==
    /\ last.op = "mark_done"
    /\ \E a, b \in DOMAIN orders :
          /\ orders[a].status = "done" /\ orders[a].result_date = today
          /\ orders[b].status = "pending" /\ orders[b].result_date = NULL

(* C5: a step of MarkOrderDone(order_id, text) leaves the order with status
   'done', result_date = the day of the call and result = text as passed (the
   empty text included), and changes no other order row. *)
C5_MarkDonePost ==
    [][\A oid \in DOMAIN orders, t \in Results :
          MarkDone(oid, t) =>
             /\ DOMAIN orders' = DOMAIN orders
             /\ orders'[oid] = [orders[oid] EXCEPT
                                   !.status = "done", !.result = t, !.result_date = today]
             /\ \A j \in DOMAIN orders \ {oid} : orders'[j] = orders[j]]_vars

\* an order was just marked done with the empty result text, among other orders,
\* one of them done on an earlier day
C5_Witness ==
    /\ last.op = "mark_done"
    /\ orders[last.id].status = "done"
    /\ orders[last.id].result = Empty
    /\ orders[last.id].result_date = today
    /\ \E j \in DOMAIN orders \ {last.id} :
          orders[j].status = "done" /\ orders[j].result_date < today

-----------------------------------------------------------------------------
(* The census specification: patients with every admission and discharge date
   of a span of days (the admission form and the edit form take any date),
   for the weekly helpers. *)

CensusDays == (Day0 - CensusSpan)..Day0

Windows == {w \in CensusDays \X CensusDays : w[1] <= w[2]}

NextCensus ==
    \/ \E ad \in CensusDays :
          /\ patientSeq < CensusPatients
          /\ AdmitPatient(AdmitForm(NameA, ad), <<>>, today)
    \/ \E id \in DOMAIN patients, ad \in CensusDays, dd \in {NULL} \cup CensusDays :
          EditPatient(id, [EditDefaults(InitDb(patients)[id]) EXCEPT
                              !.admission_date = ad, !.discharge_date = dd])
    \/ \E id \in Ids : DeletePatient(id)

SpecCensus == Init /\ [][NextCensus]_vars

(* C6: for all dates start <= end, patients_active_between(start, end) keeps
   exactly the patients with admission_date <= end and a discharge_date that
   is NULL or >= start. *)
C6_ActiveBetweenIsOverlap ==
    \A w \in Windows :
        patients_active_between(patients, w[1], w[2]) =
            { i \in DOMAIN patients :
                /\ patients[i].admission_date <= w[2]
                /\ \/ patients[i].discharge_date = NULL
                   \/ patients[i].discharge_date >= w[1] }

\* a stay Day0-2 .. Day0-1: kept for the window Day0-1 .. Day0, dropped for the
\* window after it (Day0 .. Day0) and for the window before it
C6_Witness ==
    \E i \in DOMAIN patients :
        /\ patients[i].admission_date = Day0 - 2
        /\ patients[i].discharge_date = Day0 - 1
        /\ i \in patients_active_between(patients, Day0 - 1, Day0)
        /\ i \notin patients_active_between(patients, Day0, Day0)
        /\ i \notin patients_active_between(patients, Day0 - 3, Day0 - 3)

\* the inclusive day count of a stay clamped to the window at both ends
ClampedDays(p, start, end) ==
    LET hi == IF p.discharge_date # NULL /\ p.discharge_date < end
              THEN p.discharge_date ELSE end
        lo == IF p.admission_date > start THEN p.admission_date ELSE start
    IN  IF hi - lo + 1 > 0 THEN hi - lo + 1 ELSE 0

RECURSIVE SumClamped(_, _, _, _)
SumClamped(ps, ids, start, end) ==
    IF ids = {} THEN 0
    ELSE LET i == CHOOSE x \in ids : TRUE
         IN  ClampedDays(ps[i], start, end) + SumClamped(ps, ids \ {i}, start, end)

(* C7: over a window [start, end] the weekly average is the mean, rounded to
   one decimal, of max(0, min(discharge_date or end, end) - max(admission_date,
   start) + 1) over the patients active in the window, and 0 when there is
   none.  (Values in tenths of a day.) *)
C7_AverageOverlapDays ==
    \A w \in Windows :
        LET sel == { i \in DOMAIN patients :
                        /\ patients[i].admission_date <= w[2]
                        /\ \/ patients[i].discharge_date = NULL
                           \/ patients[i].discharge_date >= w[1] }
        IN  avg_days_treated_in_week(patients, w[1], w[2]) =
                IF sel = {} THEN 0
                ELSE RoundTenths(SumClamped(patients, sel, w[1], w[2]), Cardinality(sel))

\* a stay Day0-2 .. Day0-1 counts 2 days in the whole span; a stay over the
\* whole span counts the full window Day0-2 .. Day0-1; their mean over the
\* span is (2 + 4) / 2 = 3.0
C7_Witness ==
    \E i, j \in DOMAIN patients :
        /\ patients[i].admission_date = Day0 - 2 /\ patients[i].discharge_date = Day0 - 1
        /\ patients[j].admission_date = Day0 - 3 /\ patients[j].discharge_date = NULL
        /\ DOMAIN patients = {i, j}
        /\ overlap_days(patients[i].admission_date, patients[i].discharge_date,
                        Day0 - 3, Day0) = 2
        /\ overlap_days(patients[j].admission_date, patients[j].discharge_date,
                        Day0 - 2, Day0 - 1) = 2
        /\ avg_days_treated_in_week(patients, Day0 - 3, Day0) = 30
        /\ avg_days_treated_in_week(patients, Day0 - 2, Day0 - 2) = 10

(* C8: the dashboard's overdue count is the number of orders with status
   other than 'done', a scheduled_date that is not NULL and scheduled_date
   <= today. *)
C8_OverdueCount ==
    scheduled_not_done(orders, today) =
        Cardinality({ oid \in DOMAIN orders :
                        /\ orders[oid].status # "done"
                        /\ orders[oid].scheduled_date # NULL
                        /\ orders[oid].scheduled_date <= today })

\* counted: a 'scheduled' order due today; not counted: an order due tomorrow
\* and a done order that was due before today
C8_Witness ==
    /\ scheduled_not_done(orders, today) = 1
    /\ \E a, b, c \in DOMAIN orders :
          /\ orders[a].status = "scheduled" /\ orders[a].scheduled_date = today
          /\ orders[b].status = "scheduled" /\ orders[b].scheduled_date = today + 1
          /\ orders[c].status = "done" /\ orders[c].scheduled_date < today

-----------------------------------------------------------------------------
(* The rounds specification: ward rounds saved with any visit date and plan,
   for patients that are admitted, discharged, put back and deleted. *)

Plans == {<<"P1">>, <<"P2", " ">>, <<" ">>}

NextRounds ==
    \/ /\ patientSeq < MaxPatients
       /\ AdmitPatient(AdmitForm(NameA, today), <<>>, today)
    \/ \E id \in DOMAIN patients, visit_day \in {today - 1, today}, plan \in Plans :
          /\ Len(rounds) < MaxNotes
          /\ RoundSave(id, visit_day, RoundForm(plan), Truthy(patients[id].operated),
                       <<>>, today)
    \/ \E id \in Ids : RoundDischarge(id)
    \/ \E id \in Ids : UndoDischarge(id)
    \/ \E id \in Ids : DeletePatient(id)

SpecRounds == Init /\ [][NextRounds]_vars

NotesOf(pid) == { k \in DOMAIN rounds : rounds[k].patient_id = pid }

(* C9: the latest-plan map holds exactly the patients that have a ward-round
   note, each with the plan of the note of greatest id among that patient's
   notes, whatever the visit dates. *)
C9_LatestPlanIsGreatestId ==
    LET m == latest_plan_map_all_patients(rounds)
    IN  /\ DOMAIN m = { rounds[k].patient_id : k \in DOMAIN rounds }
        /\ \A pid \in DOMAIN m :
              \E k \in NotesOf(pid) :
                  /\ \A j \in NotesOf(pid) : j <= k
                  /\ m[pid] = rounds[k].plan

\* two notes of one patient, the later one dated earlier and with another plan:
\* the map holds the later note's plan; a patient without a note is not in it
C9_Witness ==
    \E pid, other \in DOMAIN patients :
        /\ other \notin DOMAIN latest_plan_map_all_patients(rounds)
        /\ \E j, k \in NotesOf(pid) :
              /\ j < k
              /\ rounds[k].visit_date < rounds[j].visit_date
              /\ rounds[k].plan # rounds[j].plan
              /\ latest_plan_map_all_patients(rounds)[pid] = rounds[k].plan

TodayNotesOf(pid) == { k \in NotesOf(pid) : rounds[k].visit_date = today }

(* C10: today's rounds hold exactly one row for each active patient with a
   note dated today, carrying the plan of the greatest-id note among that
   patient's notes dated today; no other patient has a row. *)
C10_TodaysRounds ==
    LET df == rounds_latest_today_with_plan(patients, rounds, today)
    IN  /\ \A pid \in DOMAIN patients :
              IF patients[pid].active = 1 /\ TodayNotesOf(pid) # {}
              THEN /\ Cardinality({ r \in df : r.pid = pid }) = 1
                   /\ \A r \in df : r.pid = pid =>
                         /\ r.id \in TodayNotesOf(pid)
                         /\ \A j \in TodayNotesOf(pid) : j <= r.id
                         /\ r.plan = rounds[r.id].plan
              ELSE { r \in df : r.pid = pid } = {}
        /\ \A r \in df : r.pid \in DOMAIN patients

\* an active patient with a note dated today has its row; a discharged patient
\* with a note dated today has none
C10_Witness ==
    \E a, b \in DOMAIN patients :
        /\ patients[a].active = 1 /\ TodayNotesOf(a) # {}
        /\ patients[b].active = 0 /\ TodayNotesOf(b) # {}
        /\ { r.pid : r \in rounds_latest_today_with_plan(patients, rounds, today) } = {a}

-----------------------------------------------------------------------------
(* The admission specification: the admission form with every way of giving
   the date of birth, names with and without text, and the edit form's name. *)

\* the birth-date widgets: the year input, the age input behind its checkbox,
\* the detailed date input behind its checkbox
DobInput(y, a, d) ==
    [ dob_year |-> y, use_age |-> a # NULL, dob_age |-> a,
      use_detail |-> d # NoDate, dob_date |-> d ]

DobInputs ==
    { DobInput(1980, NULL, NoDate), DobInput(EpochYear, NULL, NoDate),
      DobInput(1980, 0, NoDate), DobInput(1980, 30, NoDate), DobInput(1980, 130, NoDate),
      DobInput(1980, NULL, <<1990, 5, 17>>), DobInput(1980, 30, <<1990, 5, 17>>) }

AdmitForms ==
    { [AdmitForm(name, today) EXCEPT
          !.medical_id = m, !.dob_year = b.dob_year, !.use_age = b.use_age,
          !.dob_age = b.dob_age, !.use_detail = b.use_detail, !.dob_date = b.dob_date] :
        name \in {NameA, Blank, <<" ", "A", " ">>}, m \in {Empty, <<"M1", " ">>},
        b \in DobInputs }

Picks == {<<>>, <<1>>}

EditNames(p) ==
    { [EditDefaults(p) EXCEPT !.name = name] : name \in {Blank, <<"B">>} }

NextAdmit ==
    \/ \E f \in AdmitForms, selected \in Picks :
          /\ patientSeq < MaxPatients
          /\ AdmitPatient(f, selected, today)
    \/ \E id \in DOMAIN patients : \E f \in EditNames(patients[id]) : EditPatient(id, f)
    \/ date_year(today) < EpochYear + MaxYears /\ YearPasses

SpecAdmit == Init /\ [][NextAdmit]_vars

\* the text holds nothing but blanks
IsBlank(t) == \A i \in DOMAIN t : t[i] = " "

(* C11: an accepted admission stores as date of birth the detailed date when
   one was given; else, when an age was given, 1 January of the year
   max(1900, min(current year, current year - age)); else 1 January of the
   birth year given. *)
C11_DobResolution ==
    [][\A f \in AdmitForms, selected \in Picks :
          (patientSeq' # patientSeq /\ ~IsBlank(f.name) /\ AdmitPatient(f, selected, today)) =>
             LET cy == date_year(today)
                 lo == IF cy - f.dob_age < cy THEN cy - f.dob_age ELSE cy
                 yr == IF lo > 1900 THEN lo ELSE 1900
             IN  patients'[patientSeq + 1].dob =
                    IF f.use_detail THEN f.dob_date
                    ELSE IF f.use_age THEN <<yr, 1, 1>>
                    ELSE <<f.dob_year, 1, 1>>]_vars

\* a patient admitted with age 130 (the year clamped to 1900) beside one
\* admitted with age 30 a year later
C11_Witness ==
    /\ last.op = "admit"
    /\ date_year(today) = EpochYear + 1
    /\ patients[last.id].dob = <<EpochYear + 1 - 30, 1, 1>>
    /\ \E other \in DOMAIN patients : patients[other].dob = <<1900, 1, 1>>

(* C12: an admission or an edit submitted with a name of blanks only (or no
   name) writes nothing: patients, orders, notes and the id counter are the
   same before and after the submission. *)
C12_BlankNameWritesNothing ==
    [][/\ \A f \in AdmitForms, selected \in Picks :
             (IsBlank(f.name) /\ AdmitPatient(f, selected, today)) =>
                UNCHANGED <<patients, patientSeq, orders, rounds>>
       /\ \A id \in DOMAIN patients : \A f \in EditNames(patients[id]) :
             (IsBlank(f.name) /\ EditPatient(id, f)) =>
                UNCHANGED <<patients, patientSeq, orders, rounds>>]_vars

\* an edit with a blank name was just rejected, for a patient admitted with an
\* order, whose name stays
C12_Witness ==
    /\ last.op = "edit_rejected"
    /\ last.id \in DOMAIN patients
    /\ patients[last.id].name = NameA
    /\ orders # <<>>

(* C14: an accepted admission, read back on the next run, shows for every
   attribute of the dict passed to add_patient the value of the dict.  (The
   form passes severity None; the next run's init_db turns it to 0.) *)
C14_AdmitRoundTrip ==
    [][\A f \in AdmitForms, selected \in Picks :
          (patientSeq' # patientSeq /\ AdmitPatient(f, selected, today)) =>
             LET d == AdmitDict(f, date_year(today))
                 r == patients'[patientSeq + 1]
             IN  /\ r.medical_id = d.medical_id
                 /\ r.name = d.name
                 /\ r.dob = d.dob
                 /\ r.ward = d.ward
                 /\ r.bed = d.bed
                 /\ r.admission_date = d.admission_date
                 /\ r.severity = d.severity
                 /\ r.surgery_needed = d.surgery_needed
                 /\ r.planned_treatment_days = d.planned_treatment_days
                 /\ r.meds = d.meds
                 /\ r.notes = d.notes
                 /\ r.diagnosis = d.diagnosis
                 /\ r.operated = d.operated]_vars

-----------------------------------------------------------------------------
(* The ward-round save specification: saves with and without extra tests and
   a rationale, completed or interrupted by the store at one of their writes. *)

RoundPicks == {<<>>, <<6>>, <<6, 8>>}

RoundForms ==
    { [RoundForm(<<"P1">>) EXCEPT !.extra_note = n] : n \in {Empty, <<" ", "CRP", " ">>} }

NextRoundSave ==
    \/ /\ patientSeq < MaxPatients
       /\ AdmitPatient(AdmitForm(NameA, today), <<>>, today)
    \/ \E id \in DOMAIN patients, r \in RoundForms, operated_now \in BOOLEAN,
          extra_selected \in RoundPicks :
          /\ Len(rounds) < MaxRounds
          /\ Len(orders) + Len(extra_selected) <= MaxFormOrders
          /\ RoundSave(id, today, r, operated_now, extra_selected, today + 1)
    \/ \E id \in DOMAIN patients, r \in RoundForms, operated_now \in BOOLEAN,
          extra_selected \in RoundPicks, done \in 0..MaxFormOrders :
          /\ Len(rounds) < MaxRounds
          /\ Len(orders) + Len(extra_selected) <= MaxFormOrders
          /\ RoundSaveInterrupted(id, today, r, operated_now, extra_selected, today + 1, done)
    \/ \E id \in Ids : DeletePatient(id)

SpecRoundSave == Init /\ [][NextRoundSave]_vars

(* C13: a ward-round save, completed or interrupted by the store at one of
   its writes, leaves either all of its effects (operated flag, one note, one
   order per selected test) or none of them.  (Each write commits on its own.) *)
C13_RoundSaveAllOrNothing ==
    [][\A id \in DOMAIN patients, r \in RoundForms, operated_now \in BOOLEAN,
          extra_selected \in RoundPicks, done \in 0..MaxFormOrders :
          RoundSaveInterrupted(id, today, r, operated_now, extra_selected, today + 1, done) =>
             \/ UNCHANGED <<patients, rounds, orders>>
             \/ /\ patients' = update_patient_operated(patients, id, operated_now)
                /\ Len(rounds') = Len(rounds) + 1
                /\ Len(orders') = Len(orders) + Len(extra_selected)]_vars

(* C20: a completed ward-round save for patient X with n selected tests sets
   X.operated, appends exactly one note for X and appends exactly n orders for
   X, each 'scheduled', ordered today, scheduled for the date given, with the
   catalog's type and the catalog's description followed by the rationale
   when there is one; nothing else of the store changes.  The effects are
   written in that order: a save stopped after k writes shows the first k. *)
C20_RoundSaveEffects ==
    [][\A id \in DOMAIN patients, r \in RoundForms, operated_now \in BOOLEAN,
          extra_selected \in RoundPicks :
          /\ RoundSave(id, today, r, operated_now, extra_selected, today + 1) =>
                /\ patients' = [patients EXCEPT ![id].operated = IF operated_now THEN 1 ELSE 0]
                /\ Len(rounds') = Len(rounds) + 1
                /\ SubSeq(rounds', 1, Len(rounds)) = rounds
                /\ rounds'[Len(rounds')].patient_id = id
                /\ Len(orders') = Len(orders) + Len(extra_selected)
                /\ SubSeq(orders', 1, Len(orders)) = orders
                /\ \A j \in DOMAIN extra_selected :
                      LET o == orders'[Len(orders) + j]
                          t == COMMON_TESTS[extra_selected[j]]
                      IN  /\ o.patient_id = id
                          /\ o.status = "scheduled"
                          /\ o.date_ordered = today
                          /\ o.scheduled_date = today + 1
                          /\ o.order_type = t[1]
                          /\ o.description =
                                IF IsBlank(r.extra_note) THEN <<t[2]>>
                                ELSE <<t[2], " - ">> \o Strip(r.extra_note)
                          /\ o.result_date = NULL
          /\ \A done \in 0..MaxFormOrders :
                RoundSaveInterrupted(id, today, r, operated_now, extra_selected, today + 1, done) =>
                   /\ done >= 1 => patients'[id].operated = IF operated_now THEN 1 ELSE 0
                   /\ done = 0 => patients' = patients
                   /\ Len(rounds') = Len(rounds) + (IF done >= 2 THEN 1 ELSE 0)
                   /\ Len(orders') = Len(orders) + (IF done > 2 THEN done - 2 ELSE 0)]_vars

\* a save with two tests and a rationale has just set the patient operated and
\* written its note and its two orders; the other patient is as admitted
C20_Witness ==
    /\ last.op = "round"
    /\ patients[last.id].operated = 1
    /\ \E other \in DOMAIN patients : other # last.id /\ patients[other].operated = 0
    /\ Len(rounds) = 1 /\ rounds[1].patient_id = last.id
    /\ Len(orders) = 2
    /\ orders[1].description = <<COMMON_TESTS[6][2], " - ", "CRP">>
    /\ orders[2].order_type = COMMON_TESTS[8][1]
    /\ orders[2].scheduled_date = today + 1

-----------------------------------------------------------------------------
(* The dashboard specification: the sample data (three wards, orders of three
   patients) and single admissions, with discharges, deletions, orders marked
   done and the day passing. *)

NextDashboard ==
    \/ /\ patientSeq < MaxPatients
       /\ AdmitPatient(AdmitForm(NameA, today), <<>>, today)
    \/ /\ Len(orders) + SampleOrders <= MaxOrders
       /\ LoadSampleData
    \/ \E id \in Ids : PageDischarge(id)
    \/ \E id \in Ids : DeletePatient(id)
    \/ \E oid \in DOMAIN orders : MarkDone(oid, Empty)
    \/ today < LastDay /\ NextDay

SpecDashboard == Init /\ [][NextDashboard]_vars

\* the ward filters the selectbox offers
WardFilters == {AllWards} \cup { patients[i].ward : i \in DOMAIN patients }

\* the store cut down to the active patients of the ward and their orders
InWard(ward) ==
    { i \in DOMAIN patients :
        patients[i].active = 1 /\ (ward # AllWards => patients[i].ward = ward) }
PatientsInWard(ward) == [ i \in InWard(ward) |-> patients[i] ]
OrdersInWard(ward) == SelectSeq(orders, LAMBDA o : o.patient_id \in InWard(ward))

(* C15: for every ward filter each dashboard figure is computed from the
   active patients of that ward only: the figures are those of the store cut
   down to these patients and their orders.  (The waiting-for-surgery count
   ignores the ward; the two order counts take every order.) *)
C15_StatsFromActiveWardOnly ==
    \A ward \in WardFilters :
        dashboard_stats(patients, orders, ward, today) =
            dashboard_stats(PatientsInWard(ward), OrdersInWard(ward), ward, today)

(* C19: on an empty store (no patient, no order, no note) every aggregate is
   its default: the dashboard's figures are 0 and its per-ward table empty,
   the weekly discharge and order counts are 0, the weekly average overlap is
   0 and the latest-plan map is empty. *)
C19_EmptyStoreDefaults ==
    (DOMAIN patients = {} /\ orders = <<>> /\ rounds = <<>>) =>
        /\ \A ward \in {AllWards, Empty, <<"304">>} :
              LET st == dashboard_stats(patients, orders, ward, today)
              IN  /\ st.total_active = 0
                  /\ DOMAIN st.patients_per_ward = {}
                  /\ st.avg_days = 0
                  /\ st.count_wait_surg = 0
                  /\ st.pending_patients = 0
                  /\ st.scheduled_not_done = 0
        /\ \A dstart, dend \in (today - 1)..(today + 1) :
              /\ count_discharges_between(patients, dstart, dend) = 0
              /\ count_orders_between(orders, dstart, dend) = 0
              /\ avg_days_treated_in_week(patients, dstart, dend) = 0
        /\ DOMAIN latest_plan_map_all_patients(rounds) = {}

\* the store is empty again after its only patient was deleted, a day later
C19_Witness ==
    /\ DOMAIN patients = {} /\ orders = <<>> /\ rounds = <<>>
    /\ last.op = "delete"
    /\ today > Day0

(* C16: a delete of patient id removes exactly the row of that id: every
   other patient row, every order and every ward-round note stay as they
   were, the orders and notes of the deleted patient included. *)
C16_DeleteRemovesOnlyTheRow ==
    [][\A id \in Ids :
          DeletePatient(id) =>
             /\ DOMAIN patients' = DOMAIN patients \ {id}
             /\ \A other \in DOMAIN patients' : patients'[other] = patients[other]
             /\ orders' = orders
             /\ rounds' = rounds]_vars

\* a patient with a note and an order was just deleted: the note and the order
\* still name it, and another patient is still there
C16_Witness ==
    /\ last.op = "delete"
    /\ last.id \notin DOMAIN patients
    /\ DOMAIN patients # {}
    /\ \E k \in DOMAIN orders : orders[k].patient_id = last.id
    /\ \E k \in DOMAIN rounds : rounds[k].patient_id = last.id

-----------------------------------------------------------------------------
(* The two-session edit specification: one session holds the edit form of a
   patient open while another edits and saves the same patient, then saves. *)

\* what the first writer saves: the form as rendered, with one field changed
FirstEdits(p) ==
    { [EditDefaults(p) EXCEPT !.name = <<"B">>],
      [EditDefaults(p) EXCEPT !.ward = <<"305">>],
      [EditDefaults(p) EXCEPT !.operated = TRUE] }

\* what the second writer has in the browser: the form as rendered from the
\* row it loaded, with the bed or the diagnosis changed
TypedEdits(p) ==
    { [EditDefaults(p) EXCEPT !.bed = <<"9">>],
      [EditDefaults(p) EXCEPT !.diagnosis = <<"D">>] }

NextEdit ==
    \/ /\ patientSeq < MaxPatients
       /\ AdmitPatient(AdmitForm(NameA, today), <<>>, today)
    \/ \E id \in DOMAIN patients : editForm.pid = 0 /\ OpenEdit(id)
    \/ \E id \in DOMAIN patients : \E f \in FirstEdits(patients[id]) : EditPatient(id, f)
    \/ /\ editForm.pid \in DOMAIN patients
       /\ \E typed \in TypedEdits(editForm.p) :
             \E f \in SubmittedForms(EditDefaults(editForm.p), typed,
                                     EditDefaults(patients[editForm.pid])) :
                SubmitOpenEdit(typed, f)
    \/ \E id \in Ids : DeletePatient(id)

SpecEdit == Init /\ [][NextEdit]_vars

(* C17: when a session saves the edit form it loaded before another session
   saved the same patient, the row then holds, for all ten columns of the
   form, what the form of the last writer held: the row it loaded with the
   last writer's own changes, the first writer's changes lost.  (A widget
   whose default was changed by the first save can come back with the new
   default, so the first writer's value is written again.) *)
C17_LastWriterFormWins ==
    [][editForm.pid \in DOMAIN patients =>
          \A typed \in TypedEdits(editForm.p) :
             \A f \in SubmittedForms(EditDefaults(editForm.p), typed,
                                     EditDefaults(patients[editForm.pid])) :
                SubmitOpenEdit(typed, f) =>
                   patients' = update_patient(patients, editForm.pid, typed)]_vars

-----------------------------------------------------------------------------
(* The weekly-overview specification: the overview page rendered day after
   day over four weeks. *)

Offsets == (0 - MaxOffset)..MaxOffset

NextWeek ==
    \/ LoadOverview
    \/ \E k \in Offsets : CallWeekRange(k)
    \/ today < Day0 + WeekSpan /\ NextDay

SpecWeek == Init /\ [][NextWeek]_vars

(* C18: for the reference day d and every offset k, week_range(d, k) is
   (monday, sunday) with monday = d - weekday(d) + 7k and sunday = monday + 6:
   monday is a Monday, the range has 7 days, d lies in week_range(d, 0), and
   week_range(d, k - 1) ends the day before week_range(d, k) starts.  The
   ranges the overview page shows are those of offsets 0 and -1. *)
C18_WeekRange ==
    /\ \A k \in Offsets :
          LET r == week_range(today, k)
          IN  /\ r[1] = (today - (today % 7)) + 7 * k
              /\ r[2] = r[1] + 6
              /\ r[1] % 7 = 0
              /\ week_range(today, k - 1)[2] + 1 = r[1]
    /\ week_range(today, 0)[1] <= today /\ today <= week_range(today, 0)[2]
    /\ last.op = "overview" =>
          /\ last.this[1] <= today /\ today <= last.this[2]
          /\ last.prev[2] + 1 = last.this[1]
          /\ last.prev[2] - last.prev[1] = 6
    /\ last.op = "week_range" =>
          /\ last.range[1] % 7 = 0
          /\ last.range[2] = last.range[1] + 6
          /\ last.range[1] = (today - (today % 7)) + 7 * last.id

\* the overview rendered on a Sunday and on a Monday: the day is the last,
\* or the first, of the week shown
C18_Witness ==
    /\ last.op = "overview"
    /\ \/ today % 7 = 6 /\ last.this[2] = today
       \/ today % 7 = 0 /\ last.this[1] = today
    /\ today >= Day0 + 7

-----------------------------------------------------------------------------
(* The store specification: admissions with quick-pick orders, ward rounds,
   results, edits of every column of the form, discharges, undos and
   deletions, over two days. *)

StorePicks == {<<>>, <<1>>, <<2, 5>>}

\* form_edit_patient_full with every widget changed
FullEdit(ad, dd) ==
    [ medical_id |-> <<" ", "M7">>, name |-> <<"B", " ">>, ward |-> <<"305">>,
      bed |-> <<"2">>, admission_date |-> ad, discharge_date |-> dd,
      surgery_needed |-> TRUE, operated |-> TRUE,
      diagnosis |-> <<"D">>, notes |-> <<"N", " ">> ]

StoreEdits ==
    { FullEdit(Day0, NULL), FullEdit(Day0, Day0) }

NextStore ==
    \/ \E sel \in StorePicks :
          /\ patientSeq < MaxPatients
          /\ Len(orders) + Len(sel) <= MaxOrders
          /\ AdmitPatient(AdmitForm(NameA, today), sel, today + 2)
    \/ \E id \in DOMAIN patients :
          /\ Len(rounds) < MaxRounds
          /\ RoundSave(id, today, RoundForm(<<"P">>), Truthy(patients[id].operated), <<>>, today)
    \/ \E oid \in DOMAIN orders : MarkDone(oid, <<"ok">>)
    \/ \E id \in DOMAIN patients, f \in StoreEdits : EditPatient(id, f)
    \/ \E id \in Ids : RoundDischarge(id)
    \/ \E id \in Ids : UndoDischarge(id)
    \/ \E id \in Ids : DeletePatient(id)
    \/ today < LastDay /\ NextDay

SpecStore == Init /\ [][NextStore]_vars

(* C21: an accepted admission with n quick-pick tests adds exactly one patient
   row, active and without a discharge date, and exactly n orders, each owned
   by the new patient, 'scheduled', ordered today and scheduled on the date
   the form supplies; the patients, orders and notes already stored stay as
   they were. *)
C21_AdmitCreatesOnePatientAndItsOrders ==
    [][patientSeq' # patientSeq =>
          \A sel \in StorePicks :
             AdmitPatient(AdmitForm(NameA, today), sel, today + 2) =>
                LET new_id == patientSeq'
                    n == Len(sel)
                    sched == today + 2
                IN  /\ new_id \notin DOMAIN patients
                    /\ DOMAIN patients' = DOMAIN patients \cup {new_id}
                    /\ patients'[new_id].active = 1
                    /\ patients'[new_id].discharge_date = NULL
                    /\ \A j \in DOMAIN patients : patients'[j] = patients[j]
                    /\ Len(orders') = Len(orders) + n
                    /\ \A k \in DOMAIN orders : orders'[k] = orders[k]
                    /\ \A k \in (Len(orders) + 1)..(Len(orders) + n) :
                          /\ orders'[k].patient_id = new_id
                          /\ orders'[k].status = "scheduled"
                          /\ orders'[k].date_ordered = today
                          /\ orders'[k].scheduled_date = sched
                    /\ rounds' = rounds]_vars

\* a second patient admitted with two tests scheduled in two days, beside a
\* first patient that has an order and a note
C21_Witness ==
    /\ last.op = "admit"
    /\ last.id = 2
    /\ 1 \in DOMAIN patients
    /\ Len(orders) = 3
    /\ orders[1].patient_id = 1
    /\ orders[2].patient_id = 2 /\ orders[3].patient_id = 2
    /\ orders[3].scheduled_date = today + 2
    /\ Len(rounds) = 1

(* C22: an order that is 'done' stays 'done': no admission, ward round,
   result entry (on this or another order, repeated or not), edit, discharge,
   undo or deletion takes an order out of 'done' or removes it. *)
C22_DoneIsAbsorbing ==
    [][\A oid \in DOMAIN orders :
          orders[oid].status = "done" =>
             /\ oid \in DOMAIN orders'
             /\ orders'[oid].status = "done"]_vars

\* the result of an order already done is entered again, after its patient
\* was deleted
C22_Witness ==
    /\ last.op = "mark_done"
    /\ orders[last.id].status = "done"
    /\ orders[last.id].result_date = today
    /\ today > Day0
    /\ orders[last.id].date_ordered < today
    /\ orders[last.id].patient_id \notin DOMAIN patients

(* C23: an accepted edit writes the ten columns of the form (the texts
   trimmed, a blank medical id as null, the two flags as 0 or 1) and nothing
   else: the row's dob, active, severity, planned treatment days and meds,
   every other patient, every order and every note stay as they were. *)
C23_EditWritesTheTenColumns ==
    [][\A id \in DOMAIN patients :
          \A f \in StoreEdits :
             EditPatient(id, f) =>
                /\ DOMAIN patients' = DOMAIN patients
                /\ patients'[id].medical_id =
                      (IF Strip(f.medical_id) = Empty THEN NullText ELSE Strip(f.medical_id))
                /\ patients'[id].name = Strip(f.name)
                /\ patients'[id].ward = Strip(f.ward)
                /\ patients'[id].bed = Strip(f.bed)
                /\ patients'[id].admission_date = f.admission_date
                /\ patients'[id].discharge_date = f.discharge_date
                /\ patients'[id].surgery_needed = (IF f.surgery_needed THEN 1 ELSE 0)
                /\ patients'[id].operated = (IF f.operated THEN 1 ELSE 0)
                /\ patients'[id].diagnosis = Strip(f.diagnosis)
                /\ patients'[id].notes = Strip(f.notes)
                /\ patients'[id].dob = patients[id].dob
                /\ patients'[id].active = patients[id].active
                /\ patients'[id].severity = patients[id].severity
                /\ patients'[id].planned_treatment_days = patients[id].planned_treatment_days
                /\ patients'[id].meds = patients[id].meds
                /\ \A j \in DOMAIN patients \ {id} : patients'[j] = patients[j]
                /\ orders' = orders
                /\ rounds' = rounds
                /\ patientSeq' = patientSeq]_vars

\* an active patient with an order and a note, beside another patient, after
\* an edit that changed every column of the form and set a discharge date
C23_Witness ==
    /\ last.op = "edit"
    /\ last.id \in DOMAIN patients
    /\ patients[last.id].name = <<"B">>
    /\ patients[last.id].medical_id = <<"M7">>
    /\ patients[last.id].discharge_date = Day0
    /\ patients[last.id].active = 1
    /\ patients[last.id].operated = 1
    /\ \E j \in DOMAIN patients : j # last.id /\ patients[j].name = NameA
    /\ \E k \in DOMAIN orders : orders[k].patient_id = last.id
    /\ \E k \in DOMAIN rounds : rounds[k].patient_id = last.id

(* C28: a patient id is never given twice: every id in the table is at most
   the sequence's value, and an admission's new id is greater than the
   sequence's value before it, so greater than every id ever given, and than
   the owner id of every order and every note stored.  The latest-plan map
   has no entry for the new patient, and no stored order is the new
   patient's but those the admission added. *)
C28_IdsNeverReused ==
    [][/\ \A j \in DOMAIN patients' : j <= patientSeq'
       /\ patientSeq' >= patientSeq
       /\ \A id \in DOMAIN patients' \ DOMAIN patients :
             /\ id > patientSeq
             /\ \A j \in DOMAIN patients : j < id
             /\ \A k \in DOMAIN orders : orders[k].patient_id < id
             /\ \A k \in DOMAIN rounds : rounds[k].patient_id < id
             /\ id \notin DOMAIN latest_plan_map_all_patients(rounds')]_vars

\* the first patient, with an order and a note, was deleted; the patient
\* admitted next has another id, and the orphaned order and note are not its
C28_Witness ==
    /\ last.op = "admit"
    /\ last.id = 2
    /\ DOMAIN patients = {2}
    /\ \E k \in DOMAIN orders : orders[k].patient_id = 1
    /\ \E k \in DOMAIN rounds : rounds[k].patient_id = 1
    /\ 1 \in DOMAIN latest_plan_map_all_patients(rounds)
    /\ 2 \notin DOMAIN latest_plan_map_all_patients(rounds)

-----------------------------------------------------------------------------
(* Further properties of the lifecycle specification. *)

(* C24: the discharge button pressed for a patient that is not active goes
   through: the row stays inactive, its discharge date becomes today whatever
   it was, nothing else changes; and discharging again on the same day
   changes nothing. *)
C24_DischargeAgain ==
    [][\A id \in DOMAIN patients :
          (patients[id].active = 0 /\ PageDischarge(id)) =>
             /\ DOMAIN patients' = DOMAIN patients
             /\ patients'[id] = [patients[id] EXCEPT !.discharge_date = today]
             /\ patients'[id].active = 0
             /\ \A j \in DOMAIN patients \ {id} : patients'[j] = patients[j]
             /\ discharge_patient(patients', id, today) = patients'
             /\ orders' = orders /\ rounds' = rounds]_vars

\* a patient discharged on an earlier day was discharged again today
C24_Witness ==
    /\ last.op = "discharge"
    /\ "was" \in DOMAIN last
    /\ last.was.active = 0
    /\ last.was.discharge_date # NULL
    /\ last.was.discharge_date < today
    /\ last.id \in DOMAIN patients
    /\ patients[last.id].active = 0
    /\ patients[last.id].discharge_date = today

(* C26: every patient with a discharge date has it on or after the admission
   date.  (The admission form and the edit form take any admission date, and
   the edit form any discharge date.) *)
C26_DischargeNotBeforeAdmission ==
    \A id \in DOMAIN patients :
        patients[id].discharge_date # NULL =>
            patients[id].discharge_date >= patients[id].admission_date

-----------------------------------------------------------------------------
(* A further property of the census specification. *)

(* C27: over every window [start, end], each patient that
   patients_active_between selects counts at least 1 and at most
   end - start + 1 overlap days, so the weekly average, when a patient is
   selected, lies between 1 and the window's length.  (Values in tenths of a
   day.  A row whose discharge date is before its admission date is selected
   by windows it does not overlap.) *)
C27_SelectedOverlapWithinWindow ==
    \A w \in Windows :
        LET df == patients_active_between(patients, w[1], w[2])
            len == (w[2] - w[1]) + 1
        IN  /\ \A i \in df :
                  LET ov == overlap_days(_to_date(patients[i].admission_date),
                                         _to_date(patients[i].discharge_date), w[1], w[2])
                  IN  1 <= ov /\ ov <= len
            /\ df # {} =>
                  /\ 10 <= avg_days_treated_in_week(patients, w[1], w[2])
                  /\ avg_days_treated_in_week(patients, w[1], w[2]) <= 10 * len

-----------------------------------------------------------------------------
(* The vanished-row specification: two sessions, one deletes a patient
   between the other's read of the row (query_df) and its write.  Each
   handler below is the page's handler in a run that read the patient before
   the DELETE was committed and writes after it. *)

\* the discharge buttons, the row gone
DischargeGone(id) ==
    LET ps0 == InitDb(patients)
    IN  /\ id \in Ids \ DOMAIN ps0
        /\ patients' = discharge_patient(ps0, id, today)
        /\ cache' = cache_clear(cache)
        /\ Did("discharge_gone", id)
        /\ UNCHANGED <<editForm, patientSeq, orders, rounds, today>>

\* page "Xuat vien": "Quay lai", the row gone
UndoGone(id) ==
    LET ps0 == InitDb(patients)
    IN  /\ id \in Ids \ DOMAIN ps0
        /\ patients' = undo_discharge(ps0, id)
        /\ cache' = cache_clear(cache)
        /\ Did("undo_gone", id)
        /\ UNCHANGED <<editForm, patientSeq, orders, rounds, today>>

\* page "Chinh sua BN": "Luu thay doi", the row gone
EditGone(id, f) ==
    LET ps0 == InitDb(patients)
    IN  /\ id \in Ids \ DOMAIN ps0
        /\ Strip(f.name) # Empty
        /\ patients' = update_patient(ps0, id, f)
        /\ cache' = cache_clear(cache)
        /\ Did("edit_gone", id)
        /\ UNCHANGED <<editForm, patientSeq, orders, rounds, today>>

\* page "Lich XN/Chup": submit of form_add_order, the selected patient gone
AddOrderGone(pid, order_type, desc, scheduled) ==
    LET ps0 == InitDb(patients)
    IN  /\ pid \in Ids \ DOMAIN ps0
        /\ patients' = ps0
        /\ orders' = add_order(orders, [ patient_id     |-> pid,
                                         order_type     |-> order_type,
                                         description    |-> Strip(desc),
                                         date_ordered   |-> today,
                                         scheduled_date |-> scheduled,
                                         status         |-> "scheduled" ])
        /\ cache' = cache_clear(cache)
        /\ Did("add_order_gone", pid)
        /\ UNCHANGED <<editForm, patientSeq, rounds, today>>

\* page "Di buong": "Luu kham", the patient gone after get_patient_info
RoundSaveGone(patient_id, visit_day, r, operated_now, extra_selected, extra_scheduled) ==
    LET ps0 == InitDb(patients)
        round_rec == RoundRec(patient_id, visit_day, r, extra_selected)
        suffix == RoundSuffix(r)
    IN  /\ patient_id \in Ids \ DOMAIN ps0
        /\ patients' = update_patient_operated(ps0, patient_id, operated_now)
        /\ rounds' = add_ward_round(rounds, round_rec, today)
        /\ orders' = AddPicked(orders, extra_selected, patient_id, suffix, today, extra_scheduled)
        /\ cache' = cache_clear(cache)
        /\ Did("round_gone", patient_id)
        /\ UNCHANGED <<editForm, patientSeq, today>>

GoneOps == {"discharge_gone", "undo_gone", "edit_gone", "add_order_gone", "round_gone"}

NextGone ==
    \/ /\ patientSeq < MaxPatients
       /\ AdmitPatient(AdmitForm(NameA, today), <<>>, today)
    \/ \E id \in DOMAIN patients :
          /\ Len(rounds) < MaxNotes
          /\ Len(orders) < MaxOrders
          /\ RoundSave(id, today, RoundForm(<<"P">>), Truthy(patients[id].operated), <<1>>, today)
    \/ \E id \in Ids : PageDischarge(id)
    \/ \E id \in Ids : DeletePatient(id)
    \/ \E id \in Ids : DischargeGone(id)
    \/ \E id \in Ids : UndoGone(id)
    \/ \E id \in Ids : EditGone(id, FullEdit(today, NULL))
    \/ \E id \in Ids :
          /\ Len(orders) < MaxOrders
          /\ AddOrderGone(id, "CT", <<"nguc">>, today)
    \/ \E id \in Ids, sel \in {<<>>, <<6>>} :
          /\ Len(rounds) < MaxNotes
          /\ Len(orders) + Len(sel) <= MaxOrders
          /\ RoundSaveGone(id, today, RoundForm(<<"P2">>), FALSE, sel, today)
    \/ today < LastDay /\ NextDay

SpecGone == Init /\ [][NextGone]_vars

(* C25: a write for a patient id whose row has been deleted changes no table
   and raises nothing: a discharge, an undo, an edit, an order creation and a
   ward-round save for a vanished patient each leave patients, orders and
   ward_rounds as they were.  (The two INSERTs carry the vanished id into
   orders and ward_rounds; the foreign keys are not enforced.) *)
C25_VanishedIdWritesNothing ==
    [][last'.op \in GoneOps =>
          /\ patients' = patients
          /\ orders' = orders
          /\ rounds' = rounds
          /\ patientSeq' = patientSeq]_vars

-----------------------------------------------------------------------------
(* The daily-report specification.  The store keeps dates as the text
   strftime("%Y-%m-%d") gives, and the report's query compares these texts;
   here a text is the sequence of its character codes.  The calendar is the
   model's: day 0 is 1 January of EpochYear and a year has 365 days. *)

MonthDays == <<31, 28, 31, 30, 31, 30, 31, 31, 30, 31, 30, 31>>

\* <<month, day of month>> of the yd-th day (from 0) of a year, from month m on
RECURSIVE MonthAndDay(_, _)
MonthAndDay(yd, m) ==
    IF yd < MonthDays[m] THEN <<m, yd + 1>> ELSE MonthAndDay(yd - MonthDays[m], m + 1)

Digit(n) == 48 + n
Dash == 45

\* faulty variant: "%Y-%-m-%-d", month and day without the leading zero
strftime_NoPad(d) ==
    LET y  == date_year(d)
        md == MonthAndDay(d % 365, 1)
        num(n) == IF n < 10 THEN <<Digit(n)>> ELSE <<Digit(n \div 10), Digit(n % 10)>>
    IN  <<Digit(y \div 1000), Digit((y \div 100) % 10), Digit((y \div 10) % 10), Digit(y % 10)>>
        \o <<Dash>> \o num(md[1]) \o <<Dash>> \o num(md[2])

\* d.strftime(DATE_FMT): "YYYY-MM-DD"
strftime(d) ==
    LET y  == date_year(d)
        md == MonthAndDay(d % 365, 1)
        pad2(n) == <<Digit(n \div 10), Digit(n % 10)>>
    IN  <<Digit(y \div 1000), Digit((y \div 100) % 10), Digit((y \div 10) % 10), Digit(y % 10)>>
        \o <<Dash>> \o pad2(md[1]) \o <<Dash>> \o pad2(md[2])

\* SQLite's comparison of two TEXT values (BINARY collation): a <= b
RECURSIVE TextLE(_, _)
TextLE(a, b) ==
    IF a = <<>> THEN TRUE
    ELSE IF b = <<>> THEN FALSE
    ELSE IF Head(a) < Head(b) THEN TRUE
    ELSE IF Head(a) > Head(b) THEN FALSE
    ELSE TextLE(Tail(a), Tail(b))

\* the ids of the rows of patients_on_day, the report's query for the day
patients_on_day(ps, day) ==
    LET dstr == strftime(day)
    IN  { i \in DOMAIN ps :
            /\ ps[i].admission_date # NULL
            /\ TextLE(strftime(ps[i].admission_date), dstr)
            /\ \/ ps[i].discharge_date = NULL
               \/ TextLE(dstr, strftime(ps[i].discharge_date)) }

\* page "Bao cao": render for the chosen day
LoadReport(day) ==
    LET ps0 == InitDb(patients)
    IN  /\ patients' = ps0
        /\ last' = [op |-> "report", id |-> 0, day |-> day,
                    present |-> patients_on_day(ps0, day)]
        /\ UNCHANGED <<editForm, patientSeq, orders, rounds, today, cache>>

\* 9 and 10 January, 31 January and 1 February, 31 December and 1 January
ReportDays == {8, 9, 30, 31, 364, 365}

NextReport ==
    \/ \E ad \in ReportDays :
          /\ patientSeq < CensusPatients
          /\ AdmitPatient(AdmitForm(NameA, ad), <<>>, today)
    \/ \E id \in DOMAIN patients, dd \in {NULL} \cup ReportDays :
          EditPatient(id, [EditDefaults(InitDb(patients)[id]) EXCEPT !.discharge_date = dd])
    \/ \E day \in ReportDays : LoadReport(day)

SpecReport == Init /\ [][NextReport]_vars

(* C29: for every day d the daily report's "patients present on d", selected
   in SQL by comparing the stored date texts with d's text (admission_date <=
   d and discharge_date null or >= d), are the patients that
   patients_active_between(d, d) selects from the parsed dates. *)
C29_ReportEqualsActiveBetween ==
    /\ \A d \in ReportDays :
          patients_on_day(patients, d) = patients_active_between(patients, d, d)
    /\ last.op = "report" =>
          last.present = patients_active_between(patients, last.day, last.day)

\* the report of 10 January: present is a patient admitted on 9 January and
\* discharged on 1 January of the next year, absent one admitted on 31 January
C29_Witness ==
    /\ last.op = "report"
    /\ last.day = 9
    /\ \E i \in last.present :
          patients[i].admission_date = 8 /\ patients[i].discharge_date = 365
    /\ \E j \in DOMAIN patients \ last.present : patients[j].admission_date = 30

-----------------------------------------------------------------------------
(* A further property of the ward-round specification. *)

(* C30: right after a ward-round save for patient X with the plan P, the
   latest-plan map holds P (trimmed, as stored) for X, whatever the visit
   date given and whatever notes X had; and X's entry stays what it is on
   every step that is not a ward-round save for X: saves for other patients
   (another session's among them), discharges, undos, deletions.  So the map
   shows for X the plan of the note inserted last. *)
C30_LatestPlanAfterSave ==
    [][LET m  == latest_plan_map_all_patients(rounds)
           m2 == latest_plan_map_all_patients(rounds')
       IN  /\ last'.op = "round" =>
                 \A id \in DOMAIN patients, visit_day \in {today - 1, today}, plan \in Plans :
                    RoundSave(id, visit_day, RoundForm(plan), Truthy(patients[id].operated),
                              <<>>, today) =>
                       /\ id \in DOMAIN m2
                       /\ m2[id] = Strip(plan)
           /\ \A X \in DOMAIN m :
                 ~(last'.op = "round" /\ last'.id = X) =>
                    /\ X \in DOMAIN m2
                    /\ m2[X] = m[X]]_vars

\* the patient's second note has just been saved, dated yesterday, with the
\* plan "P2 " where the first, dated today, has "P1": the map holds "P2"
C30_Witness ==
    /\ last.op = "round"
    /\ Len(rounds) = 2
    /\ rounds[1].patient_id = last.id /\ rounds[2].patient_id = last.id
    /\ rounds[1].plan = <<"P1">> /\ rounds[1].visit_date = today
    /\ rounds[2].plan = <<"P2">> /\ rounds[2].visit_date = today - 1
    /\ latest_plan_map_all_patients(rounds)[last.id] = <<"P2">>

====
